---- MODULE Spec2Model ----
(***************************************************************************)
(* Model of the voice interview session of given.py: the capture loop of   *)
(* AudioHandler.listen_for_audio with its concurrent key watcher, and the  *)
(* phased question sequence of AIInterviewer.start_interview with its      *)
(* try / except / finally structure.                                       *)
(*                                                                         *)
(* The main thread is a program counter (pc) over the statements of the    *)
(* source.  The pynput listener threads are the actions PromptKey,         *)
(* PromptListenerEnds and WatcherKey, which interleave with the main       *)
(* thread wherever the corresponding listener is running.                  *)
(***************************************************************************)
EXTENDS Integers, Sequences, FiniteSets

\* ---------------------------------------------------------------- bounds
\* number of items of the pre-loaded question list
NumFixed == 2
\* longest list generate_resume_questions returns
MaxResume == 1
\* max_duration of a capture, in clock ticks (30 s in the source)
MaxDuration == 1

\* ------------------------------------------------------- program values
\* the default question_id of _ask_question_and_record, "dynamic"
DynamicId == 0
\* the placeholder answer
NoAnswer == "No answer recorded."
\* the texts the recognizer can produce (the empty text included)
Texts == {"", "yes"}
\* the outcomes of one rec.AcceptWaveform / rec.Result call
RecResults == [kind : {"text"}, text : Texts] \cup {[kind |-> "error", text |-> ""]}
\* the recognizer was not called
NoRec == [kind |-> "none", text |-> ""]
\* keys the user can press; key.char.lower() is applied by the callbacks
Keys == {"e", "E", "q", "Q", "r", "R", "x"}
\* a chunk returned by stream.read: a non-empty byte string
Chunks == {<<1>>, <<2>>}
\* how far the clock moves during one read and sleep
ReadTicks == {1, 2}

\* the pre-loaded question list (self.questions)
questions == [i \in 1..NumFixed |-> [id |-> i, question |-> 100 + i]]
\* the list generate_resume_questions returns when it yields n questions
ResumeList(n) == [j \in 1..n |-> 200 + j]

VARIABLES
    pc,              \* position of the main thread
    groq_key,        \* GROQ_API_KEY is set
    rime_key,        \* RIME_API_KEY is set
    exc,             \* the exception propagating out of start_interview, or "none"
    caller,          \* which part of start_interview is running: "fixed" or "resume"
    i,               \* position of the running for-loop in its list
    resume_questions,\* the generated resume questions
    question,        \* arguments of _ask_question_and_record
    question_id,
    ret,             \* return value of _ask_question_and_record: "none" or "quit"
    transcript,      \* self.transcript
    key_pressed,     \* wait_for_key's dictionary
    promptListener,  \* the listener of wait_for_key is running
    recording,       \* AudioHandler.recording
    stop_recording,  \* AudioHandler._stop_recording
    quit_flag,       \* AudioHandler._quit_flag
    frames,          \* chunks read by the running capture
    stream,          \* "none", "started", "stopped" or "closed"
    watcher,         \* the listener of listen_for_audio is running
    elapsed,         \* time.time() - start_time
    answer_bytes,    \* what listen_for_audio returned
    rec_result,      \* what the recognizer did in the running speech_to_text call
    answer_text,     \* what speech_to_text returned: <<>> is None
    spoken,          \* what speak was called with, in order
    speak_ok,        \* the latest speak call synthesised and played its text
    stored,          \* the transcript file
    saves,           \* number of save_transcript calls
    printedEnding,   \* "Ending interview early." was printed
    exit_seen,       \* what the capture loop saw at the check that ended it
    last_capture,    \* how the latest capture call ended
    captured,        \* number of capture calls that returned audio
    quit_captures    \* the questions whose capture raised the quit signal

vars == <<pc, groq_key, rime_key, exc, caller, i, resume_questions, question, question_id, ret,
          transcript, key_pressed, promptListener, recording, stop_recording,
          quit_flag, frames, stream, watcher, elapsed, answer_bytes, rec_result,
          answer_text, spoken, speak_ok,
          stored, saves, printedEnding, exit_seen, last_capture, captured,
          quit_captures>>

engineVars == <<groq_key, rime_key, caller, i, resume_questions, question, question_id, ret,
                transcript, spoken, speak_ok, stored, saves, printedEnding,
                rec_result, answer_text>>
promptVars == <<key_pressed, promptListener>>
captureVars == <<recording, stop_recording, quit_flag, frames, stream, watcher,
                 elapsed, answer_bytes, exit_seen, last_capture, captured,
                 quit_captures>>

\* both credentials are set
creds == groq_key /\ rime_key

\* ------------------------------------------------------ pure operators
\* variant: `and` in the place of `or`
MissingKeyBoth(groq, rime) == ~groq /\ ~rime

\* line 186: not os.getenv("GROQ_API_KEY") or not os.getenv("RIME_API_KEY")
MissingKey(groq, rime) == ~groq \/ ~rime

\* key.char.lower()
Lower(k) ==
    CASE k = "E" -> "e"
      [] k = "Q" -> "q"
      [] k = "R" -> "r"
      [] OTHER -> k

\* b"".join(frames)
RECURSIVE Join(_)
Join(fs) == IF fs = <<>> THEN <<>> ELSE Head(fs) \o Join(Tail(fs))

\* speak(text): the text is printed, then synthesised and played; a failure
\* of the synthesis or of the player is caught inside speak
Speak(log, text) == Append(log, text)

\* variant: no try around the synthesis and the player
SpeakResultNoCatch(ok) == IF ok THEN "played" ELSE "raised"

\* lines 100-110: how a speak call ends when the synthesis or the player
\* works (ok) or fails: the failure is caught and logged
SpeakResult(ok) == IF ok THEN "played" ELSE "logged"

Say(kind) == [kind |-> kind, q |-> 0]
SayQuestion(q) == [kind |-> "question", q |-> q]

\* speech_to_text: <<>> stands for None, <<t>> for the text t
SpeechToText(audio, rec) ==
    IF audio = <<>> THEN <<>>
    ELSE IF rec.kind = "error" THEN <<>>
    ELSE IF rec.text # "" THEN <<rec.text>>
    ELSE <<>>

\* variant: the `or` default left out
AnswerOrPlaceholderNoDefault(text) ==
    IF text = <<>> THEN "" ELSE text[1]

\* answer_text or "No answer recorded."
AnswerOrPlaceholder(text) ==
    IF text = <<>> \/ text[1] = "" THEN NoAnswer ELSE text[1]

Entry(qid, q, answer) == [question_id |-> qid, question |-> q, answer |-> answer]

\* variant: the else of line 174 left out, both appends run
RecordedEntriesNoElse(qid, q, audio, text) ==
    IF audio # <<>>
    THEN << Entry(qid, q, AnswerOrPlaceholder(text)), Entry(qid, q, NoAnswer) >>
    ELSE << Entry(qid, q, NoAnswer) >>

\* the entries lines 167-179 append for one answered question
RecordedEntries(qid, q, audio, text) ==
    IF audio # <<>>
    THEN << Entry(qid, q, AnswerOrPlaceholder(text)) >>
    ELSE << Entry(qid, q, NoAnswer) >>

\* variant: insert at the front
PrependEntries(t, es) == es \o t

\* variant: the new entry takes the place of the last one
ReplaceLastEntry(t, es) ==
    IF t = <<>> THEN es ELSE SubSeq(t, 1, Len(t) - 1) \o es

\* self.transcript.append(...)
AppendEntries(t, es) == t \o es

\* variant: the test of key['q'] left out
AskDecisionIgnoresQuit(key) ==
    IF key.e THEN "capture" ELSE "fallthrough"

\* the branches of _ask_question_and_record after wait_for_key returned
AskDecision(key) ==
    IF key.q THEN "quit"
    ELSE IF key.e THEN "capture"
    ELSE "fallthrough"

\* the end of listen_for_audio: raise KeyboardInterrupt or return the audio
CaptureOutcome(quit, fs) ==
    IF quit THEN [raises |-> TRUE, audio |-> <<>>]
    ELSE [raises |-> FALSE, audio |-> Join(fs)]

\* variant: the start time is not subtracted
TimeLimitReachedAbsolute(el, max) == el + max + 1 > max

\* line 63: time.time() - start_time > max_duration
TimeLimitReached(el, max) == el > max

\* variant: the file is opened with mode 'a'
SaveTranscriptAppending(file, t) == [exists |-> TRUE, content |-> file.content \o t]

\* lines 150-158: the file of this candidate and interview is opened with
\* mode 'w', which empties it, and the transcript is dumped into it
SaveTranscript(file, t) == [exists |-> TRUE, content |-> t]

IsException(e) == e \in {"FileNotFoundError", "OSError", "Exception"}

\* variant: no finally clause
OuterHandlerNoFinally(e) ==
    IF e = "KeyboardInterrupt" THEN [pc |-> "except_ki", exc |-> "none"]
    ELSE [pc |-> "done", exc |-> e]

\* where an exception raised inside the outer try goes
OuterHandler(e) ==
    IF e = "KeyboardInterrupt" THEN [pc |-> "except_ki", exc |-> "none"]
    ELSE [pc |-> "finally_save", exc |-> e]

\* variant: no `except Exception` clause
InnerHandlerNoGeneric(e) ==
    IF e = "FileNotFoundError" THEN [pc |-> "except_fnf", exc |-> "none"]
    ELSE OuterHandler(e)

\* variant: the second clause is a bare `except:`
InnerHandlerBareExcept(e) ==
    IF e = "FileNotFoundError" THEN [pc |-> "except_fnf", exc |-> "none"]
    ELSE [pc |-> "except_exc", exc |-> "none"]

\* where an exception raised inside the inner try (resume phase) goes
InnerHandler(e) ==
    IF e = "FileNotFoundError" THEN [pc |-> "except_fnf", exc |-> "none"]
    ELSE IF IsException(e) THEN [pc |-> "except_exc", exc |-> "none"]
    ELSE OuterHandler(e)

\* an exception raised while `c` is the running part of start_interview
Raise(e, c) == IF c = "resume" THEN InnerHandler(e) ELSE OuterHandler(e)

\* on_press of wait_for_key
PromptOnPress(kp, k) ==
    IF Lower(k) = "e" THEN [key |-> [kp EXCEPT !.e = TRUE], stop |-> TRUE]
    ELSE IF Lower(k) = "q" THEN [key |-> [kp EXCEPT !.q = TRUE], stop |-> TRUE]
    ELSE [key |-> kp, stop |-> FALSE]

\* on_press of listen_for_audio
WatcherOnPress(s, q, k) ==
    IF Lower(k) = "r" THEN [stop |-> TRUE, quit |-> q]
    ELSE IF Lower(k) = "q" THEN [stop |-> s, quit |-> TRUE]
    ELSE [stop |-> s, quit |-> q]

\* nothing seen yet by the capture loop
NoCheck == [stop |-> FALSE, quit |-> FALSE, time |-> FALSE, frames |-> <<>>]

\* the record of one ended capture call: how it ended, the quit flag at that
\* moment, whether the stream and the watcher were released
Ended(q, outcome, quit, st, w) ==
    [question |-> q, outcome |-> outcome, quit |-> quit,
     released |-> (st = "closed" /\ ~w)]

NoCapture == Ended(0, "none", FALSE, "closed", FALSE)

\* ------------------------------------------------------------------ Init
Init ==
    /\ pc = "start"
    /\ groq_key \in BOOLEAN
    /\ rime_key \in BOOLEAN
    /\ exc = "none"
    /\ caller = "fixed"
    /\ i = 1
    /\ resume_questions = <<>>
    /\ question = 0
    /\ question_id = DynamicId
    /\ ret = "none"
    /\ transcript = <<>>
    /\ key_pressed = [e |-> FALSE, q |-> FALSE]
    /\ promptListener = FALSE
    /\ recording = FALSE
    /\ stop_recording = FALSE
    /\ quit_flag = FALSE
    /\ frames = <<>>
    /\ stream = "none"
    /\ watcher = FALSE
    /\ elapsed = 0
    /\ answer_bytes = <<>>
    /\ rec_result = NoRec
    /\ answer_text = <<>>
    /\ spoken = <<>>
    /\ speak_ok = TRUE
    /\ stored = [exists |-> FALSE, content |-> <<>>]
    /\ saves = 0
    /\ printedEnding = FALSE
    /\ exit_seen = NoCheck
    /\ last_capture = NoCapture
    /\ captured = 0
    /\ quit_captures = {}

\* ------------------------------------------------------- start_interview
\* lines 185-188: the credential check
StartInterview ==
    /\ pc = "start"
    /\ pc' = IF MissingKey(groq_key, rime_key) THEN "done" ELSE "intro"
    /\ UNCHANGED <<exc, engineVars, promptVars, captureVars>>

\* lines 191-192: the introduction
SpeakIntro ==
    /\ pc = "intro"
    /\ speak_ok' \in BOOLEAN
    /\ spoken' = Speak(spoken, Say("intro"))
    /\ i' = 1
    /\ caller' = "fixed"
    /\ pc' = "fixed_loop"
    /\ UNCHANGED <<exc, groq_key, rime_key, resume_questions, question, question_id, ret,
                   transcript, stored, saves, printedEnding, rec_result, answer_text,
                   promptVars, captureVars>>

\* line 196: the for-loop over self.questions, calling line 197
FixedLoop ==
    /\ pc = "fixed_loop"
    /\ IF i <= Len(questions)
       THEN /\ question' = questions[i].question
            /\ question_id' = questions[i].id
            /\ i' = i + 1
            /\ pc' = "ask_speak"
       ELSE /\ pc' = "resume_speak"
            /\ UNCHANGED <<question, question_id, i>>
    /\ UNCHANGED <<exc, groq_key, rime_key, caller, resume_questions, ret, transcript, spoken, speak_ok,
                   stored, saves, printedEnding, rec_result, answer_text,
                   promptVars, captureVars>>

\* line 201
ResumeSpeak ==
    /\ pc = "resume_speak"
    /\ speak_ok' \in BOOLEAN
    /\ spoken' = Speak(spoken, Say("resume_intro"))
    /\ caller' = "resume"
    /\ pc' = "resume_extract"
    /\ UNCHANGED <<exc, groq_key, rime_key, i, resume_questions, question, question_id, ret,
                   transcript, stored, saves, printedEnding, rec_result, answer_text,
                   promptVars, captureVars>>

\* line 204: extract_text_from_pdf returns, or raises
ResumeExtract ==
    /\ pc = "resume_extract"
    /\ \E r \in {"ok", "FileNotFoundError", "Exception"} :
          IF r = "ok"
          THEN pc' = "resume_generate" /\ exc' = exc
          ELSE pc' = Raise(r, caller).pc /\ exc' = Raise(r, caller).exc
    /\ UNCHANGED <<engineVars, promptVars, captureVars>>

\* line 205: generate_resume_questions returns a list, or raises
ResumeGenerate ==
    /\ pc = "resume_generate"
    /\ \/ \E n \in 0..MaxResume :
             /\ resume_questions' = ResumeList(n)
             /\ pc' = "resume_check"
             /\ exc' = exc
       \/ /\ pc' = Raise("Exception", caller).pc
          /\ exc' = Raise("Exception", caller).exc
          /\ UNCHANGED resume_questions
    /\ UNCHANGED <<groq_key, rime_key, caller, i, question, question_id, ret, transcript, spoken, speak_ok,
                   stored, saves, printedEnding, rec_result, answer_text,
                   promptVars, captureVars>>

\* lines 207-209
ResumeCheck ==
    /\ pc = "resume_check"
    /\ IF resume_questions = <<>>
       THEN /\ speak_ok' \in BOOLEAN
            /\ spoken' = Speak(spoken, Say("no_questions"))
            /\ pc' = "finally_save"
            /\ i' = i
       ELSE /\ i' = 1
            /\ pc' = "resume_loop"
            /\ UNCHANGED <<spoken, speak_ok>>
    /\ UNCHANGED <<exc, groq_key, rime_key, caller, resume_questions, question, question_id, ret,
                   transcript, stored, saves, printedEnding, rec_result, answer_text,
                   promptVars, captureVars>>

\* line 210: the for-loop over resume_questions, calling line 211
ResumeLoop ==
    /\ pc = "resume_loop"
    /\ IF i <= Len(resume_questions)
       THEN /\ question' = resume_questions[i]
            /\ question_id' = DynamicId
            /\ i' = i + 1
            /\ pc' = "ask_speak"
       ELSE /\ pc' = "finally_save"
            /\ UNCHANGED <<question, question_id, i>>
    /\ UNCHANGED <<exc, groq_key, rime_key, caller, resume_questions, ret, transcript, spoken, speak_ok,
                   stored, saves, printedEnding, rec_result, answer_text,
                   promptVars, captureVars>>

\* lines 214-215
ExceptFileNotFound ==
    /\ pc = "except_fnf"
    /\ speak_ok' \in BOOLEAN
    /\ spoken' = Speak(spoken, Say("no_resume"))
    /\ pc' = "finally_save"
    /\ UNCHANGED <<exc, groq_key, rime_key, caller, i, resume_questions, question, question_id, ret,
                   transcript, stored, saves, printedEnding, rec_result, answer_text,
                   promptVars, captureVars>>

\* lines 216-218
ExceptException ==
    /\ pc = "except_exc"
    /\ speak_ok' \in BOOLEAN
    /\ spoken' = Speak(spoken, Say("resume_issue"))
    /\ pc' = "finally_save"
    /\ UNCHANGED <<exc, groq_key, rime_key, caller, i, resume_questions, question, question_id, ret,
                   transcript, stored, saves, printedEnding, rec_result, answer_text,
                   promptVars, captureVars>>

\* lines 220-221
ExceptKeyboardInterrupt ==
    /\ pc = "except_ki"
    /\ printedEnding' = TRUE
    /\ pc' = "finally_save"
    /\ UNCHANGED <<exc, groq_key, rime_key, caller, i, resume_questions, question, question_id, ret,
                   transcript, spoken, speak_ok, stored, saves, rec_result, answer_text, promptVars,
                   captureVars>>

\* line 223: save_transcript (lines 150-158) rewrites the file
FinallySave ==
    /\ pc = "finally_save"
    /\ stored' = SaveTranscript(stored, transcript)
    /\ saves' = saves + 1
    /\ pc' = "finally_speak"
    /\ UNCHANGED <<exc, groq_key, rime_key, caller, i, resume_questions, question, question_id, ret,
                   transcript, spoken, speak_ok, printedEnding, rec_result, answer_text,
                   promptVars, captureVars>>

\* line 224; an exception no clause caught leaves start_interview afterwards
FinallySpeak ==
    /\ pc = "finally_speak"
    /\ speak_ok' \in BOOLEAN
    /\ spoken' = Speak(spoken, Say("closing"))
    /\ pc' = "done"
    /\ UNCHANGED <<exc, groq_key, rime_key, caller, i, resume_questions, question, question_id, ret,
                   transcript, stored, saves, printedEnding, rec_result, answer_text,
                   promptVars, captureVars>>

\* ---------------------------------------------- _ask_question_and_record
\* line 161: speak returns whether or not the text could be played
AskSpeak ==
    /\ pc = "ask_speak"
    /\ \E ok \in BOOLEAN :
          /\ speak_ok' = ok
          /\ spoken' = Speak(spoken, SayQuestion(question))
          /\ IF SpeakResult(ok) = "raised"
             THEN /\ pc' = Raise("Exception", caller).pc
                  /\ exc' = Raise("Exception", caller).exc
             ELSE /\ pc' = "wait_start"
                  /\ exc' = exc
    /\ ret' = "none"
    /\ UNCHANGED <<groq_key, rime_key, caller, i, resume_questions, question,
                   question_id, transcript, stored, saves, printedEnding, rec_result,
                   answer_text, promptVars, captureVars>>

\* lines 134-146: wait_for_key starts its listener
WaitStart ==
    /\ pc = "wait_start"
    /\ key_pressed' = [e |-> FALSE, q |-> FALSE]
    /\ promptListener' = TRUE
    /\ pc' = "wait_join"
    /\ UNCHANGED <<exc, engineVars, captureVars>>

\* lines 136-145: the listener thread delivers a key to on_press
PromptKey ==
    /\ promptListener
    /\ \E k \in Keys :
          /\ key_pressed' = PromptOnPress(key_pressed, k).key
          /\ promptListener' = ~PromptOnPress(key_pressed, k).stop
    /\ UNCHANGED <<pc, exc, engineVars, captureVars>>

\* the listener thread ends without on_press having returned False
PromptListenerEnds ==
    /\ promptListener
    /\ promptListener' = FALSE
    /\ UNCHANGED <<pc, exc, key_pressed, engineVars, captureVars>>

\* variant: the listener is started and not joined
WaitReturnNoJoin ==
    /\ pc = "wait_join"
    /\ pc' = "ask_branch"
    /\ UNCHANGED <<exc, engineVars, promptVars, captureVars>>

\* lines 147-148: listener.join() returns once the listener thread has ended
WaitReturn ==
    /\ pc = "wait_join"
    /\ ~promptListener
    /\ pc' = "ask_branch"
    /\ UNCHANGED <<exc, engineVars, promptVars, captureVars>>

\* lines 163-166
AskBranch ==
    /\ pc = "ask_branch"
    /\ LET d == AskDecision(key_pressed) IN
          /\ ret' = IF d = "quit" THEN "quit" ELSE "none"
          /\ pc' = IF d = "capture" THEN "cap_init" ELSE "ask_return"
    /\ UNCHANGED <<exc, groq_key, rime_key, caller, i, resume_questions, question, question_id,
                   transcript, spoken, speak_ok, stored, saves, printedEnding, rec_result,
                   answer_text, promptVars, captureVars>>

\* lines 167-168: speech_to_text is called when the audio is not empty
Transcribe ==
    /\ pc = "record"
    /\ IF answer_bytes # <<>>
       THEN \E rec \in RecResults :
               /\ rec_result' = rec
               /\ answer_text' = SpeechToText(answer_bytes, rec)
       ELSE UNCHANGED <<rec_result, answer_text>>
    /\ pc' = "append"
    /\ UNCHANGED <<exc, groq_key, rime_key, caller, i, resume_questions, question, question_id, ret,
                   transcript, spoken, speak_ok, stored, saves, printedEnding, promptVars,
                   captureVars>>

\* lines 169-179: the entry is appended; the locals of the call end with it
AppendEntry ==
    /\ pc = "append"
    /\ transcript' = AppendEntries(transcript,
                        RecordedEntries(question_id, question, answer_bytes, answer_text))
    /\ ret' = "none"
    /\ answer_bytes' = <<>>
    /\ rec_result' = NoRec
    /\ answer_text' = <<>>
    /\ exit_seen' = [exit_seen EXCEPT !.frames = <<>>]
    /\ pc' = "ask_return"
    /\ UNCHANGED <<exc, groq_key, rime_key, caller, i, resume_questions, question, question_id,
                   spoken, speak_ok, stored, saves, printedEnding, promptVars, recording,
                   stop_recording, quit_flag, frames, stream, watcher, elapsed,
                   last_capture, captured, quit_captures>>

\* lines 197-198 and 211-212: the caller tests the returned value
AskReturn ==
    /\ pc = "ask_return"
    /\ IF ret = "quit"
       THEN /\ pc' = Raise("KeyboardInterrupt", caller).pc
            /\ exc' = Raise("KeyboardInterrupt", caller).exc
       ELSE /\ pc' = IF caller = "resume" THEN "resume_loop" ELSE "fixed_loop"
            /\ exc' = exc
    /\ UNCHANGED <<engineVars, promptVars, captureVars>>

\* ------------------------------------------------------ listen_for_audio
\* variant: the two flags are not reset
CapInitNoReset ==
    /\ pc = "cap_init"
    /\ recording' = TRUE
    /\ frames' = <<>>
    /\ exit_seen' = NoCheck
    /\ pc' = "cap_open"
    /\ UNCHANGED <<exc, engineVars, promptVars, stop_recording, quit_flag, stream,
                   watcher, elapsed, answer_bytes, last_capture, captured,
                   quit_captures>>

\* lines 39-42
CapInit ==
    /\ pc = "cap_init"
    /\ recording' = TRUE
    /\ stop_recording' = FALSE
    /\ quit_flag' = FALSE
    /\ frames' = <<>>
    /\ exit_seen' = NoCheck
    /\ pc' = "cap_open"
    /\ UNCHANGED <<exc, engineVars, promptVars, stream, watcher, elapsed,
                   answer_bytes, last_capture, captured,
                   quit_captures>>

\* lines 43-45: the stream is opened and started, the clock is read
CapOpen ==
    /\ pc = "cap_open"
    /\ stream' = "started"
    /\ elapsed' = 0
    /\ pc' = "cap_listen"
    /\ UNCHANGED <<exc, engineVars, promptVars, recording, stop_recording, quit_flag,
                   frames, watcher, answer_bytes, exit_seen, last_capture, captured,
                   quit_captures>>

\* line 43: p.open raises (no input device): nothing was acquired yet
CapOpenFails ==
    /\ pc = "cap_open"
    /\ last_capture' = Ended(question, "error", quit_flag, "closed", watcher)
    /\ pc' = Raise("OSError", caller).pc
    /\ exc' = Raise("OSError", caller).exc
    /\ UNCHANGED <<engineVars, promptVars, recording, stop_recording, quit_flag,
                   frames, stream, watcher, elapsed, answer_bytes, exit_seen,
                   captured, quit_captures>>

\* line 56: the with-statement starts the key watcher
CapListen ==
    /\ pc = "cap_listen"
    /\ watcher' = TRUE
    /\ pc' = "cap_check"
    /\ UNCHANGED <<exc, engineVars, promptVars, recording, stop_recording, quit_flag,
                   frames, stream, elapsed, answer_bytes, exit_seen, last_capture, captured,
                   quit_captures>>

\* lines 47-54: the watcher thread delivers a key to on_press
WatcherKey ==
    /\ watcher
    /\ \E k \in Keys :
          /\ stop_recording' = WatcherOnPress(stop_recording, quit_flag, k).stop
          /\ quit_flag' = WatcherOnPress(stop_recording, quit_flag, k).quit
    /\ UNCHANGED <<pc, exc, engineVars, promptVars, recording, frames, stream, watcher,
                   elapsed, answer_bytes, exit_seen, last_capture, captured,
                 quit_captures>>

\* lines 57-62: the loop head and the test of the two flags
CapCheck ==
    /\ pc = "cap_check"
    /\ IF ~recording
       THEN pc' = "cap_listener_stop" /\ UNCHANGED <<recording, exit_seen>>
       ELSE IF stop_recording \/ quit_flag
       THEN /\ recording' = FALSE
            /\ exit_seen' = [stop |-> stop_recording, quit |-> quit_flag,
                             time |-> FALSE, frames |-> frames]
            /\ pc' = "cap_listener_stop"
       ELSE pc' = "cap_time" /\ UNCHANGED <<recording, exit_seen>>
    /\ UNCHANGED <<exc, engineVars, promptVars, stop_recording, quit_flag, frames,
                   stream, watcher, elapsed, answer_bytes, last_capture, captured,
                   quit_captures>>

\* lines 63-66: the time limit
CapTime ==
    /\ pc = "cap_time"
    /\ IF TimeLimitReached(elapsed, MaxDuration)
       THEN /\ recording' = FALSE
            /\ exit_seen' = [stop |-> FALSE, quit |-> FALSE, time |-> TRUE,
                             frames |-> frames]
            /\ pc' = "cap_listener_stop"
       ELSE pc' = "cap_read" /\ UNCHANGED <<recording, exit_seen>>
    /\ UNCHANGED <<exc, engineVars, promptVars, stop_recording, quit_flag, frames,
                   stream, watcher, elapsed, answer_bytes, last_capture, captured,
                   quit_captures>>

\* lines 67-69: one chunk is read and appended, then the loop sleeps
CapRead ==
    /\ pc = "cap_read"
    /\ \E c \in Chunks, dt \in ReadTicks :
          /\ frames' = Append(frames, c)
          /\ elapsed' = elapsed + dt
    /\ pc' = "cap_check"
    /\ UNCHANGED <<exc, engineVars, promptVars, recording, stop_recording, quit_flag,
                   stream, watcher, answer_bytes, exit_seen, last_capture, captured,
                   quit_captures>>

\* line 67: stream.read raises; the with-statement stops the watcher on the
\* way out, lines 70-72 are not reached
CapReadFails ==
    /\ pc = "cap_read"
    /\ watcher' = FALSE
    /\ last_capture' = Ended(question, "error", quit_flag, stream, FALSE)
    /\ pc' = Raise("OSError", caller).pc
    /\ exc' = Raise("OSError", caller).exc
    /\ frames' = <<>>
    /\ elapsed' = 0
    /\ exit_seen' = NoCheck
    /\ UNCHANGED <<engineVars, promptVars, recording, stop_recording, quit_flag,
                   stream, answer_bytes, captured, quit_captures>>

\* line 70 and the end of the with-statement
CapListenerStop ==
    /\ pc = "cap_listener_stop"
    /\ watcher' = FALSE
    /\ pc' = "cap_stream_stop"
    /\ UNCHANGED <<exc, engineVars, promptVars, recording, stop_recording, quit_flag,
                   frames, stream, elapsed, answer_bytes, exit_seen, last_capture, captured,
                   quit_captures>>

\* line 71
CapStreamStop ==
    /\ pc = "cap_stream_stop"
    /\ stream' = "stopped"
    /\ pc' = "cap_stream_close"
    /\ UNCHANGED <<exc, engineVars, promptVars, recording, stop_recording, quit_flag,
                   frames, watcher, elapsed, answer_bytes, exit_seen, last_capture, captured,
                   quit_captures>>

\* line 72
CapStreamClose ==
    /\ pc = "cap_stream_close"
    /\ stream' = "closed"
    /\ pc' = "cap_result"
    /\ UNCHANGED <<exc, engineVars, promptVars, recording, stop_recording, quit_flag,
                   frames, watcher, elapsed, answer_bytes, exit_seen, last_capture, captured,
                   quit_captures>>

\* lines 73-75: the quit signal, or the audio; line 166 receives it.  The
\* locals of the call (frames, start_time) end with it.
CapResult ==
    /\ pc = "cap_result"
    /\ LET o == CaptureOutcome(quit_flag, frames) IN
          IF o.raises
          THEN /\ last_capture' = Ended(question, "quit", quit_flag, stream, watcher)
               /\ quit_captures' = quit_captures \cup {question}
               /\ pc' = Raise("KeyboardInterrupt", caller).pc
               /\ exc' = Raise("KeyboardInterrupt", caller).exc
               /\ exit_seen' = [exit_seen EXCEPT !.frames = <<>>]
               /\ UNCHANGED <<answer_bytes, captured>>
          ELSE /\ last_capture' = Ended(question,
                                        IF o.audio = <<>> THEN "empty" ELSE "audio",
                                        quit_flag, stream, watcher)
               /\ captured' = captured + 1
               /\ answer_bytes' = o.audio
               /\ pc' = "record"
               /\ exc' = exc
               /\ UNCHANGED <<exit_seen, quit_captures>>
    /\ frames' = <<>>
    /\ elapsed' = 0
    /\ UNCHANGED <<engineVars, promptVars, recording, stop_recording, quit_flag,
                   stream, watcher>>

\* ------------------------------------------------------------------ Next
Next ==
    \/ StartInterview
    \/ SpeakIntro
    \/ FixedLoop
    \/ ResumeSpeak
    \/ ResumeExtract
    \/ ResumeGenerate
    \/ ResumeCheck
    \/ ResumeLoop
    \/ ExceptFileNotFound
    \/ ExceptException
    \/ ExceptKeyboardInterrupt
    \/ FinallySave
    \/ FinallySpeak
    \/ AskSpeak
    \/ WaitStart
    \/ PromptKey
    \/ PromptListenerEnds
    \/ WaitReturn
    \/ AskBranch
    \/ CapInit
    \/ CapOpen
    \/ CapOpenFails
    \/ CapListen
    \/ WatcherKey
    \/ CapCheck
    \/ CapTime
    \/ CapRead
    \/ CapReadFails
    \/ CapListenerStop
    \/ CapStreamStop
    \/ CapStreamClose
    \/ CapResult
    \/ Transcribe
    \/ AppendEntry
    \/ AskReturn

Spec == Init /\ [][Next]_vars

\* ================================================================ claims
\* the questions presented so far: the question texts speak was called with
Presented == SelectSeq(spoken, LAMBDA s : s.kind = "question")
NumPresented == Len(Presented)
ClosingCount == Len(SelectSeq(spoken, LAMBDA s : s.kind = "closing"))
FixedTexts == {questions[j].question : j \in 1..NumFixed}
Announcements == {"no_resume", "resume_issue", "no_questions"}
FinalizePcs == {"except_ki", "finally_save", "finally_speak", "done"}

\* a quit has been signalled: the quit key was recorded at a prompt, or
\* _ask_question_and_record returned "quit", or a capture raised
QuitSignalled ==
    \/ key_pressed.q
    \/ ret = "quit"
    \/ quit_captures # {}
    \/ pc = "except_ki"
    \/ printedEnding

\* C1: for every session that starts, on every exit path from the question
\* phases (normal completion, quit at a prompt, quit during a capture, an
\* unexpected exception) finalize runs exactly once: the transcript is
\* persisted first and the closing statement is spoken after it; no path
\* stops before finalize.
C1_FinalizeExactlyOnce ==
    /\ saves <= 1
    /\ ClosingCount <= saves
    /\ (pc # "done") => ENABLED Next
    /\ (pc = "done" /\ creds) =>
          /\ saves = 1
          /\ ClosingCount = 1
          /\ spoken[Len(spoken)] = Say("closing")
          /\ stored = [exists |-> TRUE, content |-> transcript]

\* C1 witness: a session that left the fixed phase by an audio error
C1_Witness ==
    /\ pc = "done"
    /\ exc = "OSError"
    /\ caller = "fixed"
    /\ saves = 1
    /\ ClosingCount = 1

\* C2: in every reachable state the transcript has at most as many entries
\* as questions were presented, and holds no entry for a question whose
\* capture ended with the quit signal.
C2_EntriesBoundedByPresented ==
    /\ Len(transcript) <= NumPresented
    /\ \A q \in quit_captures : \A j \in 1..Len(transcript) : transcript[j].question # q

\* C2 witness: a capture of the second question raised the quit signal after
\* the first question was recorded
C2_Witness ==
    /\ quit_captures # {}
    /\ Len(transcript) = 1
    /\ NumPresented = 2
    /\ pc = "done"

\* C3: once a quit is signalled, in the fixed phase or in the resume phase,
\* no further question is spoken, no capture is started and no entry is
\* appended; control only moves through the return of the quit and the
\* steps of finalize, and the only thing still spoken is the closing.
C3_NothingAfterQuit ==
    [][QuitSignalled =>
          /\ QuitSignalled'
          /\ transcript' = transcript
          /\ captured' = captured
          /\ pc' \in {"wait_join", "ask_branch", "ask_return"} \cup FinalizePcs
          /\ (spoken' = spoken \/ (pc = "finally_speak" /\ spoken' = Append(spoken, Say("closing"))))
      ]_vars

\* C3 witness: a session ended by a quit with fixed questions left unasked
C3_Witness ==
    /\ pc = "done"
    /\ printedEnding
    /\ NumPresented < NumFixed

\* C4: every capture call that ends produces exactly one of the three
\* outcomes (audio, empty audio, quit signal), and with each of them the
\* stream is closed and the watcher stopped.
C4_ThreeOutcomesAndReleased ==
    /\ last_capture.outcome \in {"none", "audio", "empty", "quit"}
    /\ last_capture.outcome \in {"audio", "empty", "quit"} => last_capture.released

\* C5: the loop checks quit, stop, time before every read: when both flags
\* are set at a check the outcome is the quit signal and no audio; when only
\* the stop flag is set the outcome is the audio accumulated so far, and no
\* chunk is read after the flag was seen.
C5_OutcomeDecidedAtCheck ==
    /\ pc \in {"cap_listener_stop", "cap_stream_stop", "cap_stream_close", "cap_result"}
          => frames = exit_seen.frames
    /\ pc = "record" => (~exit_seen.quit /\ answer_bytes = Join(exit_seen.frames))
    /\ (last_capture.outcome = "quit" /\ last_capture.question = question
           /\ pc \in FinalizePcs)
          => ~(exit_seen.stop /\ ~exit_seen.quit)

\* the entries the first n presented questions must have, question by question
EntriesMatchPresented(entries, n) ==
    /\ Len(entries) = n
    /\ \A j \in 1..n : entries[j].question = Presented[j].q

\* C6: if the quit occurs on the k-th presented question, at its prompt or
\* during its capture, after the k-1 earlier questions each completed their
\* capture, the persisted transcript holds exactly the k-1 entries of those
\* questions in presentation order (none for k = 1), and the closing
\* statement is still spoken.
C6_QuitPersistsEarlierEntries ==
    (pc = "done" /\ printedEnding /\ captured = NumPresented - 1) =>
        /\ stored.exists
        /\ EntriesMatchPresented(stored.content, NumPresented - 1)
        /\ spoken[Len(spoken)] = Say("closing")

\* C6 witness: quit on the third question after two recorded answers
C6_Witness ==
    /\ pc = "done"
    /\ printedEnding
    /\ NumPresented = 3
    /\ captured = 2
    /\ Len(stored.content) = 2

\* the answer an entry must carry, from what the recognizer did
ExpectedAnswer ==
    IF answer_bytes # <<>> /\ rec_result.kind = "text" /\ rec_result.text # ""
    THEN rec_result.text
    ELSE NoAnswer

\* the item of the running loop that the running question was taken from
CurrentItem ==
    IF caller = "fixed" THEN questions[i - 1]
    ELSE [id |-> DynamicId, question |-> resume_questions[i - 1]]

\* C7: for every question whose capture completes without a quit, the
\* appended entry carries that question's id and text; its answer is the
\* recognizer's text verbatim when that is non-empty, and the placeholder
\* when the audio is empty or recognition yields no text.
C7_EntryCarriesAnswer ==
    [][pc = "append" =>
          /\ Presented[NumPresented].q = CurrentItem.question
          /\ transcript' = Append(transcript,
                                  [question_id |-> CurrentItem.id,
                                   question |-> CurrentItem.question,
                                   answer |-> ExpectedAnswer])
      ]_vars

\* C7 witness: a recognised answer recorded verbatim, then a placeholder
C7_Witness ==
    /\ Len(transcript) >= 2
    /\ transcript[1].answer = "yes"
    /\ transcript[2].answer = NoAnswer
    /\ transcript[2].question_id = questions[2].id

\* C8: whenever the per-question protocol ends without a quit signal exactly
\* one entry for the question has been appended, so with no quit the
\* transcript is as long as the number of questions presented.
C8_OneEntryPerQuestion ==
    (pc \in {"fixed_loop", "resume_loop"}) => Len(transcript) = NumPresented

\* C9: when wait_for_key returns with neither key recorded the engine treats
\* it as a quit and signals the abort upward.
C9_NeitherKeyIsQuit ==
    [][(pc = "ask_branch" /\ ~key_pressed.e /\ ~key_pressed.q) =>
          (ret' = "quit" /\ pc' = "ask_return")]_vars

\* C10: when the resume phase produces no questions (resume absent,
\* extraction or generation failed, empty list) the engine speaks an
\* announcement, presents no resume question, starts no capture, and
\* finalize runs with the transcript holding exactly the fixed-phase entries.
C10_ResumeSkipped ==
    (caller = "resume" /\ resume_questions = <<>>) =>
        /\ pc \in {"resume_extract", "resume_generate", "resume_check", "except_fnf",
                   "except_exc", "finally_save", "finally_speak", "done"}
        /\ \A j \in 1..NumPresented : Presented[j].q \in FixedTexts
        /\ \A j \in 1..Len(transcript) : transcript[j].question \in FixedTexts
        /\ last_capture.question \in FixedTexts \cup {0}
        /\ pc \in {"finally_save", "finally_speak", "done"} =>
              /\ spoken[Len(SelectSeq(spoken, LAMBDA s : s.kind # "closing"))].kind
                    \in Announcements
              /\ exc = "none"
        /\ pc = "done" =>
              /\ stored = [exists |-> TRUE, content |-> transcript]
              /\ spoken[Len(spoken)] = Say("closing")
              /\ spoken[Len(spoken) - 2] = Say("resume_intro")

\* C10 witness: the resume file was absent after two recorded fixed answers
C10_Witness ==
    /\ pc = "done"
    /\ caller = "resume"
    /\ resume_questions = <<>>
    /\ spoken[Len(spoken) - 1] = Say("no_resume")
    /\ Len(stored.content) = NumFixed

\* C13: if either of the two credentials is missing when the session is
\* started, the session refuses to start: nothing is spoken, no question is
\* presented, no capture is made and no transcript is written.
C13_RefusesWithoutCredentials ==
    (~groq_key \/ ~rime_key) =>
        /\ pc \in {"start", "done"}
        /\ spoken = <<>>
        /\ transcript = <<>>
        /\ last_capture = NoCapture
        /\ stream = "none"
        /\ ~watcher /\ ~promptListener
        /\ saves = 0
        /\ ~stored.exists

\* C13 witness: start_interview has returned with only one key missing
C13_Witness ==
    /\ pc = "done"
    /\ groq_key
    /\ ~rime_key
    /\ spoken = <<>>

\* C12: a synthesis or playback failure in speak and a recognizer exception
\* never escape their call and never abort the session: after a speak
\* failure the per-question protocol still goes on to wait_for_key, and
\* after a recognition failure an entry with the placeholder answer is
\* appended and the loop goes on to the next question.
C12_FailuresNeverEscape ==
    [][/\ (spoken' # spoken /\ ~speak_ok') => exc' = exc
       /\ pc = "ask_speak" => (pc' = "wait_start" /\ exc' = exc)
       /\ pc = "record" => (pc' = "append" /\ exc' = exc)
       /\ (pc = "append" /\ rec_result.kind = "error") =>
             /\ transcript' = Append(transcript, Entry(question_id, question, NoAnswer))
             /\ pc' = "ask_return"
             /\ ret' = "none"
             /\ exc' = exc
       /\ (pc = "ask_return" /\ ret = "none") =>
             /\ pc' = (IF caller = "resume" THEN "resume_loop" ELSE "fixed_loop")
             /\ exc' = exc
      ]_vars

\* C12 witness: the question could not be played and the recognizer raised
C12_Witness ==
    /\ pc = "append"
    /\ ~speak_ok
    /\ rec_result.kind = "error"
    /\ answer_bytes # <<>>

\* the steps of the thread that runs listen_for_audio, when no read fails
CaptureStep ==
    \/ CapInit
    \/ CapOpen
    \/ CapListen
    \/ CapCheck
    \/ CapTime
    \/ CapRead
    \/ CapListenerStop
    \/ CapStreamStop
    \/ CapStreamClose
    \/ CapResult

\* the main thread keeps running while it is inside listen_for_audio: reads
\* return and the clock advances
FairSpec == Spec /\ WF_vars(CaptureStep)

CapturePcs == {"cap_init", "cap_open", "cap_listen", "cap_check", "cap_time", "cap_read",
               "cap_listener_stop", "cap_stream_stop", "cap_stream_close", "cap_result"}
AfterLoopPcs == {"cap_listener_stop", "cap_stream_stop", "cap_stream_close", "cap_result"}

\* neither the stop key nor the quit key was recorded in the running capture
NoKeyRecorded == ~stop_recording /\ ~quit_flag

\* C11: a capture during which neither the stop key nor the quit key is
\* pressed eventually ends; it ends only after the elapsed time has reached
\* max_duration, and it returns all chunks read so far in read order
\* without raising the quit signal.
C11_TimeLimitEndsCapture ==
    /\ [](/\ (pc \in AfterLoopPcs /\ NoKeyRecorded) =>
                /\ exit_seen.time
                /\ elapsed >= MaxDuration
                /\ frames = exit_seen.frames
          /\ (pc = "cap_read" /\ NoKeyRecorded) => elapsed <= MaxDuration
          /\ (pc = "record" /\ NoKeyRecorded) =>
                /\ exit_seen.time
                /\ answer_bytes = Join(exit_seen.frames)
                /\ last_capture.outcome \in {"audio", "empty"}
                /\ last_capture.question = question)
    /\ (pc \in CapturePcs) ~> (pc \notin CapturePcs)

\* C11 witness: a capture ended by the time limit returned two chunks in
\* the order they were read
C11_Witness ==
    /\ pc = "record"
    /\ NoKeyRecorded
    /\ exit_seen.time
    /\ answer_bytes = <<2, 1>>

\* C14: running the persistence step twice with the same transcript,
\* candidate id and interview name leaves the stored artifact identical to
\* the one left by running it once: the second write replaces the first
\* and adds nothing.
C14_SaveIsIdempotent ==
    LET once == SaveTranscript(stored, transcript)
        twice == SaveTranscript(once, transcript)
    IN  /\ twice = once
        /\ once.content = transcript
        /\ (pc \in {"finally_speak", "done"} /\ creds) => stored = once

\* C14 witness: a non-empty transcript has been written by save_transcript
C14_Witness ==
    /\ pc = "finally_speak"
    /\ stored.exists
    /\ Len(stored.content) = 2
    /\ stored.content = transcript

\* no resume-skip or resume-failure announcement has been spoken
NoAnnouncement == \A n \in 1..Len(spoken) : spoken[n].kind \notin Announcements

\* C15: a quit signalled during a resume-phase question (quit key at its
\* prompt, or the quit signal of its capture) is not absorbed by the resume
\* phase's handlers: no resume-skip or resume-failure announcement is
\* spoken, and control passes to the top-level handler and from there
\* directly to finalize.
C15_ResumeQuitReachesDriver ==
    [][/\ (caller = "resume" /\ pc = "ask_return" /\ ret = "quit")
            => (pc' = "except_ki" /\ spoken' = spoken)
       /\ (caller = "resume" /\ pc = "cap_result" /\ quit_flag)
            => (pc' = "except_ki" /\ spoken' = spoken)
       /\ pc = "except_ki" => (pc' = "finally_save" /\ spoken' = spoken)
       /\ (caller = "resume" /\ QuitSignalled) =>
             /\ NoAnnouncement /\ NoAnnouncement'
             /\ pc' \notin {"except_fnf", "except_exc"}
             /\ (pc' = "done" => printedEnding' /\ saves' = 1)
      ]_vars

\* C15 witness: a session ended by the quit signal of a resume question's
\* capture, after the fixed questions
C15_Witness ==
    /\ pc = "done"
    /\ caller = "resume"
    /\ printedEnding
    /\ quit_captures # {}
    /\ NumPresented = NumFixed + 1

\* C16: the stream and the watcher acquired by a capture call are stopped
\* and released on all its exit paths, a failing read included: in no
\* state has the capture exited with its stream still open or its watcher
\* still running.
C16_ReleasedOnEveryExit ==
    (pc \notin CapturePcs) => (stream \in {"none", "closed"} /\ ~watcher)

\* C17: at every moment at most one keyboard listener and at most one audio
\* input stream are active: the prompt listener of wait_for_key and the
\* watcher of a capture are never active together, each is active only
\* inside its own call, and a capture starts only after the stream and the
\* watcher of the previous capture have been released.
C17_OneListenerOneStream ==
    /\ ~(promptListener /\ watcher)
    /\ promptListener => (pc = "wait_join" /\ stream \in {"none", "closed"})
    /\ watcher => pc \in {"cap_check", "cap_time", "cap_read", "cap_listener_stop"}
    /\ pc \in {"cap_init", "cap_open"} =>
          (stream \in {"none", "closed"} /\ ~watcher /\ ~promptListener)
    /\ pc = "wait_start" => (stream \in {"none", "closed"} /\ ~watcher /\ ~promptListener)

\* C17 witness: a second capture is about to open its stream after the
\* first one closed its own
C17_Witness ==
    /\ pc = "cap_open"
    /\ stream = "closed"
    /\ captured >= 1
    /\ ~watcher

\* C18: the transcript is an append-only log: every step leaves it
\* unchanged or appends exactly one entry at its end, existing entries are
\* never modified, removed or reordered; so entries are in the order their
\* questions were presented and all fixed-phase entries precede all
\* resume-phase entries.
C18_AppendOnlyLog ==
    [][/\ \/ transcript' = transcript
          \/ /\ Len(transcript') = Len(transcript) + 1
             /\ SubSeq(transcript', 1, Len(transcript)) = transcript
             /\ transcript'[Len(transcript')].question = question
             /\ pc = "append"
       /\ \A a \in 1..Len(transcript'), b \in 1..Len(transcript') :
             a < b =>
                /\ \E n \in 1..Len(Presented') : Presented'[n].q = transcript'[a].question
                /\ \E n \in 1..Len(Presented') : Presented'[n].q = transcript'[b].question
                /\ (CHOOSE n \in 1..Len(Presented') : Presented'[n].q = transcript'[a].question)
                      < (CHOOSE n \in 1..Len(Presented') : Presented'[n].q = transcript'[b].question)
                /\ transcript'[a].question_id = DynamicId
                      => transcript'[b].question_id = DynamicId
      ]_vars

\* C18 witness: the entries of both fixed questions followed by the entry
\* of a resume question
C18_Witness ==
    /\ Len(transcript) = NumFixed + 1
    /\ transcript[1].question_id = 1
    /\ transcript[NumFixed].question_id = NumFixed
    /\ transcript[NumFixed + 1].question_id = DynamicId
    /\ pc = "ask_return"

\* C19: a quit key recorded by the watcher while it is active in a capture
\* call is never lost: also when the loop has already been left by the stop
\* key or the time limit, the call then raises the quit signal and returns
\* no audio; audio is returned only if the quit flag is still false after
\* the watcher has stopped.
C19_QuitKeyNeverLost ==
    /\ (last_capture.outcome # "none" /\ last_capture.quit)
          => last_capture.outcome = "quit"
    /\ last_capture.outcome \in {"audio", "empty"} => ~last_capture.quit
    /\ pc = "record" => ~quit_flag

\* C20: every capture call starts with the stop flag and the quit flag
\* cleared before its watcher starts, and a flag is set only by a key
\* delivered to the running watcher: a key recorded during an earlier
\* capture never ends or aborts a later one.
C20_FlagsClearedBeforeWatcher ==
    [][/\ pc' \in {"cap_open", "cap_listen"} => (~stop_recording' /\ ~quit_flag')
       /\ pc = "cap_listen" => (watcher' /\ ~stop_recording' /\ ~quit_flag')
       /\ (stop_recording' /\ ~stop_recording) => (watcher /\ pc \in CapturePcs)
       /\ (quit_flag' /\ ~quit_flag) => (watcher /\ pc \in CapturePcs)
       /\ pc' = "cap_check" => watcher'
      ]_vars

\* C20 witness: the watcher of a later capture is about to start with both
\* flags cleared, after an earlier capture that returned no audio, which
\* only a stop key seen at its first check produces
C20_Witness ==
    /\ pc = "cap_listen"
    /\ last_capture.outcome = "empty"
    /\ last_capture.question # question
    /\ ~stop_recording
    /\ ~quit_flag

====
